---- MODULE Spec2Model ----
(***************************************************************************)
(* A model of image-transformer-api (src/src/main.rs): the /transform      *)
(* handler, its multipart loop, the blocking-pool pipeline                  *)
(* (sniff -> validate -> decode -> parse_size/resize -> encode) and the    *)
(* pure parameter parsers.                                                  *)
(*                                                                         *)
(* Texts are sequences of one-character strings, so that splitting and     *)
(* number parsing are computed character by character as the Rust code     *)
(* does.  A u32 is kept in two decimal limbs (hi * Limb + lo) because the  *)
(* model checker's integers are narrower than 2^32 - 1.                     *)
(***************************************************************************)
EXTENDS Integers, Sequences, FiniteSets, TLC

VARIABLES
    pc,         \* per request: position of the handler / pipeline
    history,    \* per request: the multipart fields read so far, in order
    image_data, \* per request: Option<Bytes>   (main.rs:55)
    size_str,   \* per request: Option<String>  (main.rs:56)
    quality,    \* per request: Option<f32>     (main.rs:57)
    img,        \* per request: the decoded DynamicImage (main.rs:107)
    steps,      \* per request: the pipeline stages that have run
    encArg,     \* per request: what encode_lossy_webp was called with
    result,     \* per request: the pipeline's / handler's Result
    ioHeld,     \* requests whose handler occupies an async worker thread
    psText,     \* parse_size harness: the input text
    psOut       \* parse_size harness: the returned Result

vars == <<pc, history, image_data, size_str, quality, img, steps, encArg,
          result, ioHeld, psText, psOut>>

None == [none |-> TRUE]

Some(v) == [none |-> FALSE, val |-> v]

----------------------------------------------------------------------------
(* Bounds of the model *)

\* number of request slots in the concurrent specification
NumReq == 2

\* multipart fields read per request
MaxFields == 3

\* async worker threads of the runtime
IoWorkers == 1

\* length of the generated size texts
MaxSizeLen == 3

\* multipart fields read per request in the concurrent specification
ConcMaxFields == 1

----------------------------------------------------------------------------
(* u32 parsing: str::parse::<u32>, main.rs:144 and main.rs:146 *)

Limb == 100000

U32MaxHi == 42949

U32MaxLo == 67295

Digits == {"0", "1", "2", "3", "4", "5", "6", "7", "8", "9"}

DigitVal(c) ==
    CASE c = "0" -> 0 [] c = "1" -> 1 [] c = "2" -> 2 [] c = "3" -> 3
      [] c = "4" -> 4 [] c = "5" -> 5 [] c = "6" -> 6 [] c = "7" -> 7
      [] c = "8" -> 8 [] c = "9" -> 9

U32Err == [ok |-> FALSE]

U32(hi, lo) == [ok |-> TRUE, hi |-> hi, lo |-> lo]

\* the value of a u32 that fits the model checker's integers
U32Int(v) == v.hi * Limb + v.lo

\* checked_mul(10) then checked_add(digit): an overflow past u32::MAX is an error
RECURSIVE AccU32(_, _, _)
AccU32(s, hi, lo) ==
    IF s = <<>> THEN U32(hi, lo)
    ELSE IF Head(s) \notin Digits THEN U32Err
    ELSE LET t   == lo * 10 + DigitVal(Head(s))
             nlo == t % Limb
             nhi == hi * 10 + (t \div Limb)
         IN  IF nhi > U32MaxHi \/ (nhi = U32MaxHi /\ nlo > U32MaxLo)
             THEN U32Err
             ELSE AccU32(Tail(s), nhi, nlo)

\* a mutant: the overflow check is missing and the value wraps modulo the limbs
RECURSIVE AccU32Wrap(_, _, _)
AccU32Wrap(s, hi, lo) ==
    IF s = <<>> THEN U32(hi, lo)
    ELSE IF Head(s) \notin Digits THEN U32Err
    ELSE LET t   == lo * 10 + DigitVal(Head(s))
             nlo == t % Limb
             nhi == hi * 10 + (t \div Limb)
         IN  IF nhi > U32MaxHi \/ (nhi = U32MaxHi /\ nlo > U32MaxLo)
             THEN AccU32Wrap(Tail(s), nhi % (U32MaxHi + 1), nlo)
             ELSE AccU32Wrap(Tail(s), nhi, nlo)

\* a mutant: the overflow check is missing
ParseU32Wrap(s) ==
    IF s = <<>> THEN U32Err
    ELSE LET d == IF Head(s) = "+" THEN Tail(s) ELSE s
         IN  IF d = <<>> THEN U32Err ELSE AccU32Wrap(d, 0, 0)

\* empty -> Err; one leading '+' is skipped ('-' is not a sign for an
\* unsigned type); a sign alone -> Err; then decimal digits only
ParseU32(s) ==
    IF s = <<>> THEN U32Err
    ELSE LET d == IF Head(s) = "+" THEN Tail(s) ELSE s
         IN  IF d = <<>> THEN U32Err ELSE AccU32(d, 0, 0)

----------------------------------------------------------------------------
(* AppError and parse_size, main.rs:139-160 *)

AppError(status, msg) == [ok |-> FALSE, status |-> status, msg |-> msg]

MsgSizeFormat == "Invalid size format. Use 'WIDTHxHEIGHT'"

MsgWidth == "Invalid width value"

MsgHeight == "Invalid height value"

\* str::split('x'): the parts between the separators, empty parts kept
RECURSIVE SplitX(_, _)
SplitX(s, cur) ==
    IF s = <<>> THEN <<cur>>
    ELSE IF Head(s) = "x" THEN <<cur>> \o SplitX(Tail(s), <<>>)
    ELSE SplitX(Tail(s), Append(cur, Head(s)))

\* a mutant: the height is parsed (and reported) before the width
parse_size_height_first(s) ==
    LET parts == SplitX(s, <<>>)
    IN  IF Len(parts) # 2 THEN AppError(400, MsgSizeFormat)
        ELSE LET width  == ParseU32(parts[1])
                 height == ParseU32(parts[2])
             IN  IF ~height.ok THEN AppError(400, MsgHeight)
                 ELSE IF ~width.ok THEN AppError(400, MsgWidth)
                 ELSE [ok |-> TRUE, width |-> width, height |-> height]

parse_size(s) ==
    LET parts == SplitX(s, <<>>)
    IN  IF Len(parts) # 2 THEN AppError(400, MsgSizeFormat)
        ELSE LET width  == ParseU32(parts[1])
                 height == ParseU32(parts[2])
             IN  IF ~width.ok THEN AppError(400, MsgWidth)
                 ELSE IF ~height.ok THEN AppError(400, MsgHeight)
                 ELSE [ok |-> TRUE, width |-> width, height |-> height]

----------------------------------------------------------------------------
(* f32 parsing: str::parse::<f32>, main.rs:72.                              *)
(* An f32 is NaN, an infinity, or a finite value kept as the decimal       *)
(* (-1)^neg * mant * 10^exp it was rounded from, mant without trailing     *)
(* zeros.  Rounding to f32 is monotone and keeps 0.0 and 100.0; for the    *)
(* texts of at most seven significant digits used here the nearest f32     *)
(* lies on the same side of 0.0 and 100.0 as the decimal, so comparisons   *)
(* on the decimal are the comparisons on the f32.  Underflow to zero and   *)
(* overflow to infinity are modelled.                                       *)

FNaN == [cls |-> "nan"]

FInf(neg) == [cls |-> "inf", neg |-> neg]

FFin(neg, mant, exp) == [cls |-> "fin", neg |-> neg, mant |-> mant, exp |-> exp]

RECURSIVE Pow10(_)
Pow10(n) == IF n <= 0 THEN 1 ELSE 10 * Pow10(n - 1)

RECURSIVE NumDigits(_)
NumDigits(m) == IF m < 10 THEN 1 ELSE 1 + NumDigits(m \div 10)

\* the number of consecutive decimal digits of s from position i on
RECURSIVE NDigits(_, _)
NDigits(s, i) ==
    IF i > Len(s) \/ s[i] \notin Digits THEN 0 ELSE 1 + NDigits(s, i + 1)

\* the value of the n decimal digits of s from position i on
RECURSIVE DigitsVal(_, _, _)
DigitsVal(s, i, n) ==
    IF n = 0 THEN 0
    ELSE DigitsVal(s, i, n - 1) * 10 + DigitVal(s[i + n - 1])

RECURSIVE Normal(_, _, _)
Normal(neg, mant, exp) ==
    IF mant = 0 THEN FFin(neg, 0, 0)
    ELSE IF mant % 10 = 0 THEN Normal(neg, mant \div 10, exp + 1)
    ELSE FFin(neg, mant, exp)

\* mant scaled to seven decimal digits (mant has at most seven)
Scaled7(mant) == mant * Pow10(7 - NumDigits(mant))

\* round-to-nearest into f32: above f32::MAX + ulp/2 (3.4028235677e38) it is
\* an infinity, at or below 2^-150 (7.0064923e-46) it is a signed zero
RoundF32(neg, mant, exp) ==
    LET v     == Normal(neg, mant, exp)
        order == NumDigits(v.mant) + v.exp
    IN  IF v.mant = 0 THEN v
        ELSE IF order > 39 \/ (order = 39 /\ Scaled7(v.mant) > 3402823)
             THEN FInf(neg)
        ELSE IF order < -45 \/ (order = -45 /\ Scaled7(v.mant) <= 7006492)
             THEN FFin(neg, 0, 0)
        ELSE v

LowerCase(c) ==
    CASE c = "N" -> "n" [] c = "A" -> "a" [] c = "I" -> "i" [] c = "F" -> "f"
      [] c = "T" -> "t" [] c = "Y" -> "y" [] OTHER -> c

Lowered(s) == [i \in 1..Len(s) |-> LowerCase(s[i])]

F32Err == [ok |-> FALSE]

F32Ok(v) == [ok |-> TRUE, val |-> v]

\* dec2flt's parse_inf_nan: "nan", "inf", "infinity", ASCII case ignored
ParseInfNan(s, neg) ==
    LET l == Lowered(s)
    IN  IF l = <<"n", "a", "n">> THEN F32Ok(FNaN)
        ELSE IF l = <<"i", "n", "f">>
                \/ l = <<"i", "n", "f", "i", "n", "i", "t", "y">>
             THEN F32Ok(FInf(neg))
        ELSE F32Err

\* dec2flt's parse_number on the unsigned rest: digits [. digits] with at
\* least one digit, then an optional exponent e|E [+|-] digits, and nothing
\* after it; a rest that is no number may still be an infinity or a NaN
ParseUnsignedF32(s, neg) ==
    LET n1        == NDigits(s, 1)
        hasDot    == 1 + n1 <= Len(s) /\ s[1 + n1] = "."
        fracStart == IF hasDot THEN n1 + 2 ELSE n1 + 1
        n2        == IF hasDot THEN NDigits(s, fracStart) ELSE 0
        p         == fracStart + n2
        mant      == DigitsVal(s, 1, n1) * Pow10(n2) + DigitsVal(s, fracStart, n2)
        hasExp    == p <= Len(s) /\ s[p] \in {"e", "E"}
        hasESign  == p + 1 <= Len(s) /\ s[p + 1] \in {"+", "-"}
        eStart    == IF hasESign THEN p + 2 ELSE p + 1
        n3        == NDigits(s, eStart)
        eVal      == DigitsVal(s, eStart, n3)
        e         == IF hasESign /\ s[p + 1] = "-" THEN 0 - eVal ELSE eVal
    IN  IF n1 + n2 = 0 THEN ParseInfNan(s, neg)
        ELSE IF ~hasExp
             THEN IF p = Len(s) + 1 THEN F32Ok(RoundF32(neg, mant, 0 - n2))
                  ELSE ParseInfNan(s, neg)
        ELSE IF n3 = 0 \/ eStart + n3 # Len(s) + 1 THEN ParseInfNan(s, neg)
        ELSE F32Ok(RoundF32(neg, mant, e - n2))

\* empty -> Err; one leading sign is taken; a sign alone -> Err
ParseF32(s) ==
    IF s = <<>> THEN F32Err
    ELSE LET signed == Head(s) \in {"+", "-"}
             rest   == IF signed THEN Tail(s) ELSE s
         IN  IF rest = <<>> THEN F32Err
             ELSE ParseUnsignedF32(rest, Head(s) = "-")

\* q < 0.0 in IEEE 754: false for a NaN and for either zero
Below0(q) ==
    CASE q.cls = "nan" -> FALSE
      [] q.cls = "inf" -> q.neg
      [] q.cls = "fin" -> q.neg /\ q.mant # 0

\* q > 100.0 in IEEE 754: false for a NaN
Above100(q) ==
    CASE q.cls = "nan" -> FALSE
      [] q.cls = "inf" -> ~q.neg
      [] q.cls = "fin" ->
            LET order == NumDigits(q.mant) + q.exp
            IN  /\ ~q.neg
                /\ q.mant # 0
                /\ \/ order > 3
                   \/ order = 3 /\ Scaled7(q.mant) > 1000000

F100 == FFin(FALSE, 1, 2)

----------------------------------------------------------------------------
(* Inputs: images, texts and multipart fields *)

\* An uploaded byte sequence, by what the image crate sees in it: the
\* signature its leading bytes carry, whether the body decodes, and the
\* dimensions it decodes to (powers of two, so that the resize ratios are
\* exact in f64).
Image(magic, decodable, w, h) ==
    [magic |-> magic, decodable |-> decodable, w |-> w, h |-> h]

PngImage == Image("png", TRUE, 2, 1)

JpegImage == Image("jpeg", TRUE, 4, 4)

CorruptWebp == Image("webp", FALSE, 1, 1)

GifImage == Image("gif", TRUE, 1, 1)

TextBytes == Image("none", FALSE, 1, 1)

Images == {PngImage, JpegImage, CorruptWebp, GifImage, TextBytes}

SizeTexts ==
    { <<"4", "x", "4">>, <<"4", "x", "1">>, <<"1", "x", "2">>,
      <<"a", "x", "1">>, <<"4">> }

QualityTexts ==
    { <<"5", "0">>, <<"1", "0", "0">>, <<"1", "0", "1">>, <<"-", "1">>,
      <<"N", "a", "N">>, <<"a", "b", "c">> }

\* a multipart field: its name ("" when it has none), and its content read
\* as bytes (an image field) or as text (any other field)
Field(name, bytes, text) == [name |-> name, bytes |-> bytes, text |-> text]

ImageField(i) == Field("image", i, <<>>)

TextField(name, t) == Field(name, TextBytes, t)

Fields ==
    {ImageField(i) : i \in Images}
        \cup {TextField("size", t) : t \in SizeTexts}
        \cup {TextField("quality", t) : t \in QualityTexts}
        \cup {TextField("comment", <<"a">>), TextField("", <<"a">>)}

\* the fields of the concurrent specification
ConcFields ==
    {ImageField(PngImage), ImageField(TextBytes),
     TextField("quality", <<"1", "0", "1">>)}

Req == 1..NumReq

----------------------------------------------------------------------------
(* The resize of the image crate, main.rs:112 *)

Max(a, b) == IF a >= b THEN a ELSE b

\* f64::round of a / b for a >= 0, b > 0: halves go away from zero
Round(a, b) == (2 * a + b) \div (2 * b)

\* DynamicImage::resize -> resize_dimensions(w, h, nwidth, nheight, false):
\* the aspect ratio is kept and the image is scaled by the smaller of the
\* two ratios nwidth / w and nheight / h, each side at least 1
resize(w, h, nwidth, nheight) ==
    LET useWidth == nwidth * h <= nheight * w
        num      == IF useWidth THEN nwidth ELSE nheight
        den      == IF useWidth THEN w ELSE h
    IN  [w |-> Max(Round(w * num, den), 1), h |-> Max(Round(h * num, den), 1)]

----------------------------------------------------------------------------
(* The handler and the pipeline as a state machine *)

MsgQuality == "Quality must be between 0.0 and 100.0"

MsgNoImage == "Image data not provided in 'image' field"

MsgSniff == "Could not determine image format"

MsgUnsupported == "Input image must be PNG, JPG, or WebP"

MsgDecode == "Failed to decode image"

MsgEncode == "Failed to encode image to WebP format"

MsgMultipart == "MultipartError"

NoResult == [pending |-> TRUE]

NoImg == [w |-> 0, h |-> 0]

NoEnc == [called |-> FALSE]

Init ==
    /\ pc = [r \in Req |-> "idle"]
    /\ history = [r \in Req |-> <<>>]
    /\ image_data = [r \in Req |-> None]
    /\ size_str = [r \in Req |-> None]
    /\ quality = [r \in Req |-> None]
    /\ img = [r \in Req |-> NoImg]
    /\ steps = [r \in Req |-> {}]
    /\ encArg = [r \in Req |-> NoEnc]
    /\ result = [r \in Req |-> NoResult]
    /\ ioHeld = {}
    /\ psText = <<>>
    /\ psOut = NoResult

\* a handler is polled only when an async worker thread is free
WorkerFree == Cardinality(ioHeld) < IoWorkers

InPipeline(r) == pc[r] \in {"sniff", "validate", "decode", "resize", "encode"}

\* the runtime accepts a connection and starts transform_image_handler
Accept(r) ==
    /\ pc[r] = "idle"
    /\ WorkerFree
    /\ pc' = [pc EXCEPT ![r] = "reading"]
    /\ UNCHANGED <<history, image_data, size_str, quality, img, steps, encArg,
                   result, ioHeld, psText, psOut>>

\* main.rs:73-74
QualityRejected(q) == ~q.none /\ (Below0(q.val) \/ Above100(q.val))

\* a mutant: an unparseable quality keeps the earlier value
ParsedQualitySticky(old, text) ==
    LET p == ParseF32(text) IN IF p.ok THEN Some(p.val) ELSE old

\* main.rs:72: quality_str.parse::<f32>().ok()
ParsedQuality(old, text) ==
    LET p == ParseF32(text) IN IF p.ok THEN Some(p.val) ELSE None

\* one pass of the multipart loop over a field that reads well
ReadField(r, f, max) ==
    /\ pc[r] = "reading"
    /\ WorkerFree
    /\ Len(history[r]) < max
    /\ history' = [history EXCEPT ![r] = Append(@, f)]
    /\ image_data' = IF f.name = "image"
                     THEN [image_data EXCEPT ![r] = Some(f.bytes)]
                     ELSE image_data
    /\ size_str' = IF f.name = "size"
                   THEN [size_str EXCEPT ![r] = Some(f.text)]
                   ELSE size_str
    /\ quality' = IF f.name = "quality"
                  THEN [quality EXCEPT ![r] = ParsedQuality(@, f.text)]
                  ELSE quality
    /\ IF f.name = "quality" /\ QualityRejected(quality'[r])
       THEN /\ result' = [result EXCEPT ![r] = AppError(400, MsgQuality)]
            /\ pc' = [pc EXCEPT ![r] = "done"]
       ELSE UNCHANGED <<result, pc>>
    /\ UNCHANGED <<img, steps, encArg, ioHeld, psText, psOut>>

\* next_field(), bytes() or text() fails: the MultipartError becomes an
\* AppError through From<E> (main.rs:174-183) and the handler returns
ReadFails(r, max) ==
    /\ pc[r] = "reading"
    /\ WorkerFree
    /\ Len(history[r]) < max
    /\ result' = [result EXCEPT ![r] = AppError(500, MsgMultipart)]
    /\ pc' = [pc EXCEPT ![r] = "done"]
    /\ UNCHANGED <<history, image_data, size_str, quality, img, steps, encArg,
                   ioHeld, psText, psOut>>

\* a mutant: process_image is called on the handler's own thread
CallInline(r) == ioHeld' = ioHeld \cup {r}

\* tokio::task::spawn_blocking: the closure runs on the blocking pool and
\* the handler awaits it, which frees its async worker
SpawnBlocking(r) == ioHeld' = ioHeld

\* a mutant: the missing image is reported as a server error
MissingImageServerError == AppError(500, MsgNoImage)

\* main.rs:83-85
MissingImageError == AppError(400, MsgNoImage)

\* next_field() returns None: the loop ends, the image is required and the
\* pipeline is started
EndOfFields(r) ==
    /\ pc[r] = "reading"
    /\ WorkerFree
    /\ IF image_data[r].none
       THEN /\ result' = [result EXCEPT ![r] = MissingImageError]
            /\ pc' = [pc EXCEPT ![r] = "done"]
            /\ UNCHANGED ioHeld
       ELSE /\ pc' = [pc EXCEPT ![r] = "sniff"]
            /\ SpawnBlocking(r)
            /\ UNCHANGED result
    /\ UNCHANGED <<history, image_data, size_str, quality, img, steps, encArg,
                   psText, psOut>>

\* the pipeline stage fails: its error is the closure's result
Fails(r, err) ==
    /\ result' = [result EXCEPT ![r] = err]
    /\ pc' = [pc EXCEPT ![r] = "joined"]

\* main.rs:101
SniffError == AppError(400, MsgSniff)

\* image::guess_format
Sniff(r) ==
    /\ pc[r] = "sniff"
    /\ steps' = [steps EXCEPT ![r] = @ \cup {"sniff"}]
    /\ IF image_data[r].val.magic = "none"
       THEN Fails(r, SniffError)
       ELSE /\ pc' = [pc EXCEPT ![r] = "validate"]
            /\ UNCHANGED result
    /\ UNCHANGED <<history, image_data, size_str, quality, img, encArg,
                   ioHeld, psText, psOut>>

\* a mutant: every recognized format is let through
SupportedAll == {"png", "jpeg", "webp", "gif"}

\* main.rs:103
Supported == {"png", "jpeg", "webp"}

Validate(r) ==
    /\ pc[r] = "validate"
    /\ steps' = [steps EXCEPT ![r] = @ \cup {"validate"}]
    /\ IF image_data[r].val.magic \notin Supported
       THEN Fails(r, AppError(400, MsgUnsupported))
       ELSE /\ pc' = [pc EXCEPT ![r] = "decode"]
            /\ UNCHANGED result
    /\ UNCHANGED <<history, image_data, size_str, quality, img, encArg,
                   ioHeld, psText, psOut>>

\* image::load_from_memory
Decode(r) ==
    /\ pc[r] = "decode"
    /\ steps' = [steps EXCEPT ![r] = @ \cup {"decode"}]
    /\ IF ~image_data[r].val.decodable
       THEN /\ Fails(r, AppError(500, MsgDecode))
            /\ UNCHANGED img
       ELSE /\ img' = [img EXCEPT ![r] = [w |-> image_data[r].val.w,
                                          h |-> image_data[r].val.h]]
            /\ pc' = [pc EXCEPT ![r] = "resize"]
            /\ UNCHANGED result
    /\ UNCHANGED <<history, image_data, size_str, quality, encArg,
                   ioHeld, psText, psOut>>

\* main.rs:110-113: the size is parsed here, after the decode
Resize(r) ==
    /\ pc[r] = "resize"
    /\ IF size_str[r].none
       THEN /\ pc' = [pc EXCEPT ![r] = "encode"]
            /\ UNCHANGED <<img, result, steps>>
       ELSE LET ps == parse_size(size_str[r].val)
            IN  /\ steps' = [steps EXCEPT ![r] =
                               @ \cup (IF ps.ok THEN {"parse_size", "resize"}
                                       ELSE {"parse_size"})]
                /\ IF ~ps.ok
                   THEN /\ Fails(r, ps)
                        /\ UNCHANGED img
                   ELSE /\ img' = [img EXCEPT ![r] =
                                     resize(@.w, @.h, U32Int(ps.width),
                                            U32Int(ps.height))]
                        /\ pc' = [pc EXCEPT ![r] = "encode"]
                        /\ UNCHANGED result
    /\ UNCHANGED <<history, image_data, size_str, quality, encArg,
                   ioHeld, psText, psOut>>

\* main.rs:115
DefaultQuality == F100

\* quality.unwrap_or(100.0)
UnwrapQuality(q) == IF q.none THEN DefaultQuality ELSE q.val

\* encode_to_webp -> encode_lossy_webp: the codec is given the image and the
\* quality; it yields bytes, or nothing, which is the EncodeError
Encode(r) ==
    /\ pc[r] = "encode"
    /\ steps' = [steps EXCEPT ![r] = @ \cup {"encode"}]
    /\ encArg' = [encArg EXCEPT ![r] =
                    [called |-> TRUE, w |-> img[r].w, h |-> img[r].h,
                     quality |-> UnwrapQuality(quality[r])]]
    /\ \E empty \in BOOLEAN :
          IF empty
          THEN Fails(r, AppError(500, MsgEncode))
          ELSE /\ result' = [result EXCEPT ![r] =
                               [ok |-> TRUE, status |-> 200,
                                msg |-> "image/webp"]]
               /\ pc' = [pc EXCEPT ![r] = "joined"]
    /\ UNCHANGED <<history, image_data, size_str, quality, img,
                   ioHeld, psText, psOut>>

\* the join handle resolves: the handler is polled again and writes the
\* response (main.rs:90-96, and IntoResponse for an AppError)
Respond(r) ==
    /\ pc[r] = "joined"
    /\ Cardinality(ioHeld \ {r}) < IoWorkers
    /\ pc' = [pc EXCEPT ![r] = "done"]
    /\ ioHeld' = ioHeld \ {r}
    /\ UNCHANGED <<history, image_data, size_str, quality, img, steps, encArg,
                   result, psText, psOut>>

\* one request with the full range of fields
Next ==
    \/ Accept(1)
    \/ \E f \in Fields : ReadField(1, f, MaxFields)
    \/ ReadFails(1, MaxFields)
    \/ EndOfFields(1)
    \/ Sniff(1)
    \/ Validate(1)
    \/ Decode(1)
    \/ Resize(1)
    \/ Encode(1)
    \/ Respond(1)

Spec == Init /\ [][Next]_vars

\* several requests at once, over a few fields
NextConc ==
    \E r \in Req :
        \/ Accept(r)
        \/ \E f \in ConcFields : ReadField(r, f, ConcMaxFields)
        \/ ReadFails(r, ConcMaxFields)
        \/ EndOfFields(r)
        \/ Sniff(r)
        \/ Validate(r)
        \/ Decode(r)
        \/ Resize(r)
        \/ Encode(r)
        \/ Respond(r)

SpecConc == Init /\ [][NextConc]_vars

----------------------------------------------------------------------------
(* parse_size on its own: the text is drawn, then the function is applied *)

SizeAlphabet == {"0", "7", "x", "+", "-", "a"}

GeneratedSizeTexts == UNION {[1..n -> SizeAlphabet] : n \in 0..MaxSizeLen}

U32MaxText == <<"4", "2", "9", "4", "9", "6", "7", "2", "9", "5">>

U32OverText == <<"4", "2", "9", "4", "9", "6", "7", "2", "9", "6">>

LongSizeTexts ==
    { <<"8", "0", "0", "x", "6", "0", "0">>,
      <<"8", "0", "0">>,
      <<"8", "0", "0", "x", "6", "0", "0", "x", "1", "0">>,
      <<"a", "x", "1", "0">>,
      U32MaxText \o <<"x">> \o U32MaxText,
      U32OverText \o <<"x", "1">>,
      <<"1", "x">> \o U32OverText,
      <<"9", "9", "9", "9", "9", "9", "9", "9", "9", "9", "9", "x", "1">>,
      <<"0", "0", "7", "x", "+", "1", "0">> }

InitSize ==
    /\ Init!1 /\ Init!2 /\ Init!3 /\ Init!4 /\ Init!5
    /\ Init!6 /\ Init!7 /\ Init!8 /\ Init!9 /\ Init!10
    /\ psText \in GeneratedSizeTexts \cup LongSizeTexts
    /\ psOut = NoResult

CallParseSize ==
    /\ psOut = NoResult
    /\ psOut' = parse_size(psText)
    /\ UNCHANGED <<pc, history, image_data, size_str, quality, img, steps,
                   encArg, result, ioHeld, psText>>

NextSize == CallParseSize

SpecSize == InitSize /\ [][NextSize]_vars

----------------------------------------------------------------------------
(* What the claims speak of, stated on the request as it was sent (the     *)
(* history of its fields) and on the texts themselves                       *)

HasField(h, name) == \E i \in 1..Len(h) : h[i].name = name

\* the last field of that name (there is one)
LastField(h, name) ==
    h[CHOOSE i \in 1..Len(h) :
        /\ h[i].name = name
        /\ \A j \in (i + 1)..Len(h) : h[j].name # name]

CountFields(h, name) == Cardinality({i \in 1..Len(h) : h[i].name = name})

\* every field of the request was read without a MultipartError
WellFormed(r) == result[r] # AppError(500, MsgMultipart)

Responded(r) == pc[r] = "done"

\* the real number the f32 stands for lies in [0.0, 100.0]; a NaN and the
\* infinities do not
InRange(q) == q.cls = "fin" /\ ~Below0(q) /\ ~Above100(q)

\* the text parses as an f32 below 0.0 or above 100.0
OutOfRangeText(t) ==
    ParseF32(t).ok /\ (Below0(ParseF32(t).val) \/ Above100(ParseF32(t).val))

OutOfRangeField(f) == f.name = "quality" /\ OutOfRangeText(f.text)

CountX(s) == Cardinality({i \in 1..Len(s) : s[i] = "x"})

BeforeX(s) == SubSeq(s, 1, (CHOOSE i \in 1..Len(s) : s[i] = "x") - 1)

AfterX(s) == SubSeq(s, (CHOOSE i \in 1..Len(s) : s[i] = "x") + 1, Len(s))

\* one or more decimal digits
IsDecimal(s) == Len(s) >= 1 /\ \A i \in 1..Len(s) : s[i] \in Digits

\* a non-negative integer as a text: decimal digits after an optional '+'
IsNonNegInt(s) ==
    Len(s) >= 1 /\ IsDecimal(IF s[1] = "+" THEN Tail(s) ELSE s)

Unsigned(s) == IF s[1] = "+" THEN Tail(s) ELSE s

\* the value of a decimal text of any length, in limbs: the last five digits
\* and the digits before them
DecLo(s) ==
    LET n == IF Len(s) < 5 THEN Len(s) ELSE 5
    IN  DigitsVal(s, Len(s) - n + 1, n)

DecHi(s) == IF Len(s) <= 5 THEN 0 ELSE DigitsVal(s, 1, Len(s) - 5)

DecValue(s) == U32(DecHi(s), DecLo(s))

FitsU32(s) ==
    \/ DecHi(s) < U32MaxHi
    \/ DecHi(s) = U32MaxHi /\ DecLo(s) <= U32MaxLo

IsU32Text(s) == IsNonNegInt(s) /\ FitsU32(Unsigned(s))

SizeCalled == psOut # NoResult

----------------------------------------------------------------------------
(* The claims *)

\* C1 (as claimed): whenever the encoder is called for a request whose size
\* text parsed to W' x H' with W' >= 1 and H' >= 1, the image it is given is
\* exactly W' wide and H' high, whatever the input's aspect ratio.
C1_ExactSize ==
    \A r \in Req :
        (encArg[r].called /\ ~size_str[r].none) =>
            LET ps == parse_size(size_str[r].val)
            IN  (ps.ok /\ U32Int(ps.width) >= 1 /\ U32Int(ps.height) >= 1) =>
                    /\ encArg[r].w = U32Int(ps.width)
                    /\ encArg[r].h = U32Int(ps.height)

\* C2 (as claimed): a well-formed request without an image field is answered
\* 400 with the missing-image message, whatever its other fields are.
C2_MissingImage400 ==
    \A r \in Req :
        (Responded(r) /\ WellFormed(r) /\ ~HasField(history[r], "image")) =>
            result[r] = AppError(400, MsgNoImage)

\* C2 (amended): a well-formed request without an image field is answered
\* 400; the message is the missing-image one unless a quality field parsed
\* below 0.0 or above 100.0, and then it is the quality-range one.
C2_MissingImageOrQuality ==
    \A r \in Req :
        (Responded(r) /\ WellFormed(r) /\ ~HasField(history[r], "image")) =>
            result[r] =
                IF \E i \in 1..Len(history[r]) : OutOfRangeField(history[r][i])
                THEN AppError(400, MsgQuality)
                ELSE AppError(400, MsgNoImage)

\* C2 witness: a request with a size and a quality field and no image was
\* answered with the missing-image error.
C2_Witness ==
    \E r \in Req :
        /\ Responded(r)
        /\ HasField(history[r], "size")
        /\ HasField(history[r], "quality")
        /\ ~HasField(history[r], "image")
        /\ result[r] = AppError(400, MsgNoImage)

\* C3 (as claimed): for a well-formed request with an image field and a
\* malformed size, neither the sniff nor the decode ever runs, and the
\* answer is 400.
C3_SizeBeforeSniff ==
    \A r \in Req :
        ( /\ pc[r] \notin {"idle", "reading"}
          /\ WellFormed(r)
          /\ HasField(history[r], "image")
          /\ HasField(history[r], "size")
          /\ ~parse_size(LastField(history[r], "size").text).ok ) =>
            /\ steps[r] \cap {"sniff", "decode"} = {}
            /\ Responded(r) => result[r].status = 400

\* C4: a well-formed request whose image bytes carry no recognized signature
\* or a signature other than PNG, JPEG, WEBP is answered 400, never 500, and
\* its decode never starts, whatever its size and quality are.
C4_BadFormat400 ==
    \A r \in Req :
        ( /\ pc[r] \notin {"idle", "reading"}
          /\ WellFormed(r)
          /\ HasField(history[r], "image")
          /\ LastField(history[r], "image").bytes.magic
                \notin {"png", "jpeg", "webp"} ) =>
            /\ "decode" \notin steps[r]
            /\ pc[r] # "decode"
            /\ Responded(r) => result[r].status = 400

\* C4 witness: a recognized but unsupported image, sent with a malformed
\* size, was answered with the unsupported-format error.
C4_Witness ==
    \E r \in Req :
        /\ Responded(r)
        /\ result[r] = AppError(400, MsgUnsupported)
        /\ HasField(history[r], "size")
        /\ ~parse_size(LastField(history[r], "size").text).ok

\* C5 (as claimed): with one quality field, a text that is no float is not
\* rejected and the encoder gets 100.0; a value outside [0.0, 100.0] is
\* answered 400 and the pipeline is never invoked; a value inside reaches
\* the encoder unchanged.  With no quality field the encoder gets 100.0.
C5_QualityRule ==
    \A r \in Req :
        LET h == history[r]
        IN  /\ (CountFields(h, "quality") = 0 /\ encArg[r].called) =>
                    encArg[r].quality = F100
            /\ CountFields(h, "quality") = 1 =>
                 LET p == ParseF32(LastField(h, "quality").text)
                 IN  /\ ~p.ok =>
                          /\ result[r] # AppError(400, MsgQuality)
                          /\ encArg[r].called => encArg[r].quality = F100
                     /\ (p.ok /\ ~InRange(p.val)) =>
                          /\ ~InPipeline(r)
                          /\ steps[r] = {}
                          /\ ~encArg[r].called
                          /\ (Responded(r) /\ WellFormed(r)) =>
                               result[r].status = 400
                     /\ (p.ok /\ InRange(p.val) /\ encArg[r].called) =>
                          encArg[r].quality = p.val

\* C6 (as claimed): parse_size succeeds exactly when there is one 'x' and
\* both parts are non-negative integers, and then returns them; another
\* number of separators is the format error; otherwise a part that is no
\* non-negative integer is the value error, the width first.
C6_ParseSize ==
    SizeCalled =>
        IF CountX(psText) # 1
        THEN psOut = AppError(400, MsgSizeFormat)
        ELSE LET a == BeforeX(psText)
                 b == AfterX(psText)
             IN  IF ~IsNonNegInt(a) THEN psOut = AppError(400, MsgWidth)
                 ELSE IF ~IsNonNegInt(b) THEN psOut = AppError(400, MsgHeight)
                 ELSE /\ psOut.ok
                      /\ psOut.width = DecValue(Unsigned(a))
                      /\ psOut.height = DecValue(Unsigned(b))

\* C6 (amended): as claimed, a part counting as a non-negative integer only
\* when it is an optional '+' and decimal digits of a value at most
\* 4294967295.
C6_ParseSizeU32 ==
    SizeCalled =>
        IF CountX(psText) # 1
        THEN psOut = AppError(400, MsgSizeFormat)
        ELSE LET a == BeforeX(psText)
                 b == AfterX(psText)
             IN  IF ~IsU32Text(a) THEN psOut = AppError(400, MsgWidth)
                 ELSE IF ~IsU32Text(b) THEN psOut = AppError(400, MsgHeight)
                 ELSE /\ psOut.ok
                      /\ psOut.width = DecValue(Unsigned(a))
                      /\ psOut.height = DecValue(Unsigned(b))

\* C6 witness: "800x600" was parsed to (800, 600).
C6_Witness ==
    /\ psText = <<"8", "0", "0", "x", "6", "0", "0">>
    /\ SizeCalled
    /\ psOut.ok
    /\ U32Int(psOut.width) = 800
    /\ U32Int(psOut.height) = 600

\* C7: while a request is in its pipeline stage it holds no async worker
\* thread, so accepting another request and reading its multipart fields
\* stay enabled.
C7_PipelineOffIoThread ==
    \A r \in Req :
        InPipeline(r) =>
            /\ r \notin ioHeld
            /\ \A s \in Req :
                 /\ pc[s] = "idle" => ENABLED Accept(s)
                 /\ pc[s] = "reading" =>
                      /\ ENABLED EndOfFields(s)
                      /\ Len(history[s]) < ConcMaxFields =>
                           \A f \in ConcFields :
                               ENABLED ReadField(s, f, ConcMaxFields)

\* C7 witness: while one request is being decoded, another one has been
\* accepted, has had its fields read and is in the pipeline too.
C7_Witness ==
    \E r, s \in Req :
        /\ r # s
        /\ pc[r] = "decode"
        /\ InPipeline(s)
        /\ Len(history[s]) >= 1

\* C8 (as claimed): whenever the encoder is called, the quality it is given
\* lies in [0.0, 100.0].
C8_EncoderQualityInRange ==
    \A r \in Req : encArg[r].called => InRange(encArg[r].quality)

\* C9 (as claimed): for every text WxH of two decimal non-negative integers
\* of any magnitude parse_size succeeds and returns exactly (W, H).
C9_NoUpperBound ==
    ( /\ SizeCalled
      /\ CountX(psText) = 1
      /\ IsDecimal(BeforeX(psText))
      /\ IsDecimal(AfterX(psText)) ) =>
        /\ psOut.ok
        /\ psOut.width = DecValue(BeforeX(psText))
        /\ psOut.height = DecValue(AfterX(psText))

\* C9 (amended): for every text WxH of two decimal non-negative integers,
\* parse_size returns exactly (W, H) when both are at most 4294967295, and
\* otherwise fails with the value error (400) of the first part above it.
C9_U32UpperBound ==
    ( /\ SizeCalled
      /\ CountX(psText) = 1
      /\ IsDecimal(BeforeX(psText))
      /\ IsDecimal(AfterX(psText)) ) =>
        IF ~FitsU32(BeforeX(psText)) THEN psOut = AppError(400, MsgWidth)
        ELSE IF ~FitsU32(AfterX(psText)) THEN psOut = AppError(400, MsgHeight)
        ELSE /\ psOut.ok
             /\ psOut.width = DecValue(BeforeX(psText))
             /\ psOut.height = DecValue(AfterX(psText))

\* C9 witness: 4294967295x4294967295 was parsed to exactly these values.
C9_Witness ==
    /\ psText = U32MaxText \o <<"x">> \o U32MaxText
    /\ SizeCalled
    /\ psOut.ok
    /\ psOut.width = U32(U32MaxHi, U32MaxLo)
    /\ psOut.height = U32(U32MaxHi, U32MaxLo)

\* C10: the multipart loop folds the fields in arrival order: it stops with
\* the quality error at the first quality field parsed below 0.0 or above
\* 100.0 and reads nothing after it; otherwise image and size are those of
\* the last image and size fields and the quality is that of the last
\* quality field, absent when that text is no float; other fields change
\* nothing.
C10_FieldFold ==
    \A r \in Req :
        WellFormed(r) =>
            LET h   == history[r]
                bad == {i \in 1..Len(h) : OutOfRangeField(h[i])}
            IN  IF bad # {}
                THEN /\ bad = {Len(h)}
                     /\ Responded(r)
                     /\ result[r] = AppError(400, MsgQuality)
                     /\ steps[r] = {}
                ELSE /\ result[r] # AppError(400, MsgQuality)
                     /\ image_data[r] =
                          IF HasField(h, "image")
                          THEN Some(LastField(h, "image").bytes) ELSE None
                     /\ size_str[r] =
                          IF HasField(h, "size")
                          THEN Some(LastField(h, "size").text) ELSE None
                     /\ quality[r] =
                          IF HasField(h, "quality")
                             /\ ParseF32(LastField(h, "quality").text).ok
                          THEN Some(ParseF32(LastField(h, "quality").text).val)
                          ELSE None

\* C10 witness: a valid quality, then one that is no float, then an image:
\* the pipeline runs with the quality absent.
C10_Witness ==
    \E r \in Req :
        /\ Len(history[r]) = 3
        /\ history[r][1] = TextField("quality", <<"5", "0">>)
        /\ history[r][2] = TextField("quality", <<"a", "b", "c">>)
        /\ history[r][3].name = "image"
        /\ quality[r] = None
        /\ encArg[r].called

====
